---- MODULE Spec2Model ----
(***************************************************************************)
(* Model of the web-server log analysis tool of src/Main.py: the per-line  *)
(* classifier analyze_log_line (regular-expression parse, bot detection,   *)
(* rule evaluation) and the two-pass driver main (per-IP tally, then       *)
(* evaluation and aggregation, then the summary).                          *)
(*                                                                         *)
(* A Python str is a sequence of one-character strings; None is the empty  *)
(* tuple and a present optional value x is <<x>>.  A Counter is a function *)
(* whose domain is the set of keys counted so far.                         *)
(***************************************************************************)
EXTENDS Integers, Sequences, FiniteSets, TLC

(***************************************************************************)
(* Characters and strings                                                  *)
(***************************************************************************)
Digits == <<"0", "1", "2", "3", "4", "5", "6", "7", "8", "9">>

UpperChars ==
    <<"A", "B", "C", "D", "E", "F", "G", "H", "I", "J", "K", "L", "M",
      "N", "O", "P", "Q", "R", "S", "T", "U", "V", "W", "X", "Y", "Z">>

LowerChars ==
    <<"a", "b", "c", "d", "e", "f", "g", "h", "i", "j", "k", "l", "m",
      "n", "o", "p", "q", "r", "s", "t", "u", "v", "w", "x", "y", "z">>

Range(s) == {s[i] : i \in DOMAIN s}

DigitSet == Range(Digits)
UpperSet == Range(UpperChars)
LowerSet == Range(LowerChars)

\* \s, \d and \w of the re module (the ASCII part)
SpaceSet == {" ", "\t", "\n", "\r", "\f"}

WordSet == DigitSet \cup UpperSet \cup LowerSet \cup {"_"}

IsSpace(c) == c \in SpaceSet

QuoteSet == {"\""}

\* The lower-case letter of every upper-case letter
LowerOf ==
    [c \in UpperSet |->
        LowerChars[CHOOSE i \in DOMAIN UpperChars : UpperChars[i] = c]]

\* str.lower() on one character
LowerChar(c) == IF c \in UpperSet THEN LowerOf[c] ELSE c

\* str.lower()
Lower(s) == [i \in DOMAIN s |-> LowerChar(s[i])]

\* s[i..j], empty when j < i
Slice(s, i, j) == IF j < i THEN <<>> ELSE SubSeq(s, i, j)

\* the literal lit stands in s at position i
LitAt(s, i, lit) ==
    /\ i >= 1
    /\ i + Len(lit) - 1 <= Len(s)
    /\ \A k \in 1..Len(lit) : s[i + k - 1] = lit[k]

\* sub in s
Contains(s, sub) == \E i \in 1..(Len(s) - Len(sub) + 1) : LitAt(s, i, sub)

Min(S) == CHOOSE x \in S : \A y \in S : x <= y

Max(S) == CHOOSE x \in S : \A y \in S : x >= y

\* Last index of the longest run of characters of the class that starts at
\* i (i - 1 when s[i] is not of the class or i is past the end): what a
\* greedy \d+ or \w+ consumes.
RunIn(s, i, class) ==
    LET stop == {k \in i..Len(s) : s[k] \notin class}
    IN  IF stop = {} THEN Len(s) ELSE Min(stop) - 1

\* The same for the characters outside the class: what a greedy \S+ or
\* [^"]* consumes.
RunNotIn(s, i, class) ==
    LET stop == {k \in i..Len(s) : s[k] \in class}
    IN  IF stop = {} THEN Len(s) ELSE Min(stop) - 1

\* str.strip()
Strip(s) ==
    LET keep == {k \in DOMAIN s : ~IsSpace(s[k])}
        last == CHOOSE k \in keep : \A j \in (k + 1)..Len(s) : IsSpace(s[j])
    IN  IF keep = {} THEN <<>> ELSE SubSeq(s, Min(keep), last)

\* The largest number of digits int() converts (sys.int_max_str_digits);
\* a longer digit string raises ValueError.
INT_MAX_STR_DIGITS == 4300

\* The value of every decimal digit
DigitOf ==
    [c \in DigitSet |-> (CHOOSE i \in DOMAIN Digits : Digits[i] = c) - 1]

RECURSIVE DigitsValue(_)
DigitsValue(s) ==
    IF s = <<>> THEN 0
    ELSE 10 * DigitsValue(SubSeq(s, 1, Len(s) - 1)) + DigitOf[s[Len(s)]]

\* int(s) on a string of decimal digits: <<value>>, or <<>> for ValueError
IntOf(s) ==
    IF Len(s) > INT_MAX_STR_DIGITS THEN <<>> ELSE <<DigitsValue(s)>>

\* ---------------------------------------------------------------------------
\* The log grammar: the regular expression of analyze_log_line,
\*   ^(\S+) - (\S+) - \[(.*?)\] "(\S+) (\S+) (\S+)" (\d{3}) (\d+)
\*   "([^"]*)" "([^"]*)" (\d+)$
\* ---------------------------------------------------------------------------
\* What follows the lazy timestamp group, tried with the closing bracket at
\* position k:  \] "(\S+) (\S+) (\S+)" (\d{3}) (\d+) "([^"]*)" "([^"]*)" (\d+)$
\* A greedy \S+ stops at the first whitespace, \d+ at the first non-digit
\* and [^"]* at the first quote, and what follows each of them cannot
\* match inside the run, so every group is determined by k.  The result is
\* <<>> (no match) or <<groups 4..11>>.
TailMatch(s, k) ==
    LET m1 == k + 3
        em == RunNotIn(s, m1, SpaceSet)
        p1 == em + 2
        ep == RunNotIn(s, p1, SpaceSet)
        q1 == ep + 2
        eq == RunNotIn(s, q1, SpaceSet)
        st == eq + 2
        b1 == st + 4
        eb == RunIn(s, b1, DigitSet)
        r1 == eb + 3
        er == RunNotIn(s, r1, QuoteSet)
        u1 == er + 4
        eu == RunNotIn(s, u1, QuoteSet)
        x1 == eu + 3
        ex == RunIn(s, x1, DigitSet)
    IN  IF /\ LitAt(s, k, <<"]", " ", "\"">>)
           /\ em >= m1 /\ LitAt(s, em + 1, <<" ">>)
           /\ ep >= p1 /\ LitAt(s, ep + 1, <<" ">>)
           /\ eq >= q1 + 1 /\ LitAt(s, eq, <<"\"", " ">>)
           /\ RunIn(s, st, DigitSet) >= st + 2 /\ LitAt(s, st + 3, <<" ">>)
           /\ eb >= b1 /\ LitAt(s, eb + 1, <<" ", "\"">>)
           /\ LitAt(s, er + 1, <<"\"", " ", "\"">>)
           /\ LitAt(s, eu + 1, <<"\"", " ">>)
           /\ ex >= x1 /\ ex = Len(s)
        THEN << [method        |-> Slice(s, m1, em),
                 path          |-> Slice(s, p1, ep),
                 protocol      |-> Slice(s, q1, eq - 1),
                 status        |-> Slice(s, st, st + 2),
                 bytes_sent    |-> Slice(s, b1, eb),
                 referer       |-> Slice(s, r1, er),
                 user_agent    |-> Slice(s, u1, eu),
                 response_time |-> Slice(s, x1, ex)] >>
        ELSE <<>>

\* match.groups(): the three leading groups and the eight that TailMatch found
MatchGroups(ip, auth, timestamp, g) ==
    << [ip            |-> ip,
        auth          |-> auth,
        timestamp     |-> timestamp,
        method        |-> g.method,
        path          |-> g.path,
        protocol      |-> g.protocol,
        status        |-> g.status,
        bytes_sent    |-> g.bytes_sent,
        referer       |-> g.referer,
        user_agent    |-> g.user_agent,
        response_time |-> g.response_time] >>

\* re.match(pattern, s): <<>> (None) or <<the eleven groups>>.  The lazy
\* (.*?) takes the shortest timestamp after which the rest matches.
LogMatch(s) ==
    LET e1 == RunNotIn(s, 1, SpaceSet)
        a1 == e1 + 4
        e2 == RunNotIn(s, a1, SpaceSet)
        t1 == e2 + 5
        ends == {k \in t1..Len(s) :
                    /\ TailMatch(s, k) # <<>>
                    /\ \A j \in t1..(k - 1) : s[j] # "\n"}
    IN  IF /\ e1 >= 1 /\ LitAt(s, e1 + 1, <<" ", "-", " ">>)
           /\ e2 >= a1 /\ LitAt(s, e2 + 1, <<" ", "-", " ", "[">>)
           /\ ends # {}
        THEN LET k == Min(ends)
             IN  MatchGroups(Slice(s, 1, e1), Slice(s, a1, e2),
                             Slice(s, t1, k - 1), TailMatch(s, k)[1])
        ELSE <<>>

\* re.match(r'^(\S+) -', s) of the first pass: <<>> or <<group 1>>
IpPrefixMatch(s) ==
    LET e1 == RunNotIn(s, 1, SpaceSet)
    IN  IF e1 >= 1 /\ LitAt(s, e1 + 1, <<" ", "-">>)
        THEN <<Slice(s, 1, e1)>>
        ELSE <<>>

\* ---------------------------------------------------------------------------
\* Bot detection
\* ---------------------------------------------------------------------------
bot_indicators ==
    << <<"b", "o", "t">>,
       <<"c", "r", "a", "w", "l", "e", "r">>,
       <<"s", "p", "i", "d", "e", "r">>,
       <<"s", "c", "r", "a", "p", "e", "r">>,
       <<"f", "e", "e", "d">>,
       <<"c", "r", "a", "w", "l">>,
       <<"g", "o", "o", "g", "l", "e">>,
       <<"b", "i", "n", "g">>,
       <<"y", "a", "h", "o", "o">>,
       <<"b", "a", "i", "d", "u">>,
       <<"y", "a", "n", "d", "e", "x">>,
       <<"d", "u", "c", "k", "d", "u", "c", "k">>,
       <<"s", "l", "u", "r", "p">>,
       <<"t", "e", "o", "m", "a">>,
       <<"a", "s", "k", " ", "j", "e", "e", "v", "e", "s">>,
       <<"c", "u", "r", "l">>,
       <<"w", "g", "e", "t">>,
       <<"p", "y", "t", "h", "o", "n", "-", "r", "e", "q", "u", "e", "s", "t", "s">>,
       <<"j", "a", "v", "a">>,
       <<"h", "t", "t", "p", "c", "l", "i", "e", "n", "t">>,
       <<"a", "p", "a", "c", "h", "e", "-", "h", "t", "t", "p", "c", "l", "i", "e", "n", "t">>,
       <<"p", "h", "p">>,
       <<"r", "u", "b", "y">>,
       <<"g", "o", "-", "h", "t", "t", "p">>,
       <<"n", "o", "d", "e", "-", "f", "e", "t", "c", "h">>,
       <<"o", "k", "h", "t", "t", "p">>,
       <<"l", "i", "b", "w", "w", "w">>,
       <<"z", "g", "r", "a", "b">>,
       <<"p", "a", "n", "s", "c", "i", "e", "n", "t">>,
       <<"n", "m", "a", "p">> >>

\* is_bot(user_agent)
is_bot(user_agent) ==
    IF user_agent = <<>> \/ user_agent = <<"-">>
    THEN FALSE
    ELSE LET ua_lower == Lower(user_agent)
         IN  \E n \in DOMAIN bot_indicators : Contains(ua_lower, bot_indicators[n])

\* is_high_request_ip(ip, ip_counts): ip_counts.get(ip, 0) > 30
is_high_request_ip(ip, ip_counts) ==
    (IF ip \in DOMAIN ip_counts THEN ip_counts[ip] ELSE 0) > 30

\* The pattern (\w+bot/\d+\.\d+|\w+bot) with re.IGNORECASE tried at
\* position p of s: 0 when it does not match there, else the last index of
\* the match.  \w+ is greedy and gives characters back until "bot" follows:
\* the first alternative needs the word to end in "bot" right before the
\* slash, the second takes the last "bot" of the word.
BotPatternEnd(s, p) ==
    LET low  == Lower(s)
        bot  == <<"b", "o", "t">>
        wend == RunIn(s, p, WordSet)
        d1   == RunIn(s, wend + 2, DigitSet)
        d2   == RunIn(s, d1 + 2, DigitSet)
        js   == {j \in p..(wend - 3) : LitAt(low, j + 1, bot)}
    IN  IF /\ wend - 3 >= p
           /\ LitAt(low, wend - 2, bot)
           /\ LitAt(s, wend + 1, <<"/">>)
           /\ d1 >= wend + 2
           /\ LitAt(s, d1 + 1, <<".">>)
           /\ d2 >= d1 + 2
        THEN d2
        ELSE IF js # {} THEN Max(js) + 3 ELSE 0

\* re.search(r'(\w+bot/\d+\.\d+|\w+bot)', s, re.IGNORECASE): <<>> (None) or
\* <<group 1>>, the match at the leftmost position that has one
BotPatternSearch(s) ==
    LET starts == {p \in DOMAIN s : BotPatternEnd(s, p) # 0}
    IN  IF starts = {} THEN <<>>
        ELSE LET p == Min(starts) IN <<Slice(s, p, BotPatternEnd(s, p))>>

\* The bot name analyze_log_line derives for a user agent that is_bot accepts:
\* <<>> (None) or <<name>>
BotName(user_agent) ==
    LET low == Lower(user_agent)
    IN  IF Contains(low, <<"b", "o", "t">>)
        THEN BotPatternSearch(user_agent)
        ELSE IF Contains(low, <<"g", "o", "o", "g", "l", "e">>)
        THEN << <<"G", "o", "o", "g", "l", "e", "b", "o", "t">> >>
        ELSE IF Contains(low, <<"b", "i", "n", "g">>)
        THEN << <<"B", "i", "n", "g", "b", "o", "t">> >>
        ELSE IF Contains(low, <<"y", "a", "h", "o", "o">>)
        THEN << <<"Y", "a", "h", "o", "o", " ", "S", "l", "u", "r", "p">> >>
        ELSE << <<"U", "n", "k", "n", "o", "w", "n", " ", "B", "o", "t">> >>

\* ---------------------------------------------------------------------------
\* Suspicious paths and timestamps
\* ---------------------------------------------------------------------------
suspicious_paths_pattern ==
    << <<"a", "d", "m", "i", "n">>,
       <<"l", "o", "g", "i", "n">>,
       <<"w", "p", "-", "a", "d", "m", "i", "n">>,
       <<".", "p", "h", "p">>,
       <<".", "e", "n", "v">>,
       <<"c", "o", "n", "f", "i", "g">>,
       <<".", ".", "/">>,
       <<"/", "c", "g", "i", "-", "b", "i", "n", "/">> >>

\* re.search(suspicious_paths, path, re.IGNORECASE): the pattern (the local
\* suspicious_paths of analyze_log_line) is an alternation of literals
SuspiciousPathSearch(path) ==
    LET low == Lower(path)
    IN  \E n \in DOMAIN suspicious_paths_pattern :
            Contains(low, suspicious_paths_pattern[n])

IsLeapYear(y) == y % 4 = 0 /\ (y % 100 # 0 \/ y % 400 = 0)

DaysInMonth(y, m) ==
    IF m = 2 THEN (IF IsLeapYear(y) THEN 29 ELSE 28)
    ELSE IF m \in {4, 6, 9, 11} THEN 30 ELSE 31

\* datetime.strptime(ts, '%d/%m/%Y:%H:%M:%S') returns (TRUE) or raises
\* ValueError (FALSE).  Each directive takes one or two digits (%Y exactly
\* four, %d also a space and a digit) within its range, the separators are
\* literal, nothing may remain, and the date must exist.
StrptimeOk(ts) ==
    LET dsp == LitAt(ts, 1, <<" ">>)
        d1 == IF dsp THEN 2 ELSE 1
        de == RunIn(ts, d1, DigitSet)
        m1 == de + 2
        me == RunIn(ts, m1, DigitSet)
        y1 == me + 2
        ye == RunIn(ts, y1, DigitSet)
        h1 == ye + 2
        he == RunIn(ts, h1, DigitSet)
        n1 == he + 2
        ne == RunIn(ts, n1, DigitSet)
        s1 == ne + 2
        se == RunIn(ts, s1, DigitSet)
        OneOrTwo(a, b) == b - a \in {0, 1}
        day == DigitsValue(Slice(ts, d1, de))
        mon == DigitsValue(Slice(ts, m1, me))
        yr  == DigitsValue(Slice(ts, y1, ye))
        hr  == DigitsValue(Slice(ts, h1, he))
        mi  == DigitsValue(Slice(ts, n1, ne))
        sec == DigitsValue(Slice(ts, s1, se))
    IN  /\ IF dsp THEN de = d1 ELSE OneOrTwo(d1, de)
        /\ LitAt(ts, de + 1, <<"/">>)
        /\ OneOrTwo(m1, me)
        /\ LitAt(ts, me + 1, <<"/">>)
        /\ ye - y1 = 3
        /\ LitAt(ts, ye + 1, <<":">>)
        /\ OneOrTwo(h1, he)
        /\ LitAt(ts, he + 1, <<":">>)
        /\ OneOrTwo(n1, ne)
        /\ LitAt(ts, ne + 1, <<":">>)
        /\ OneOrTwo(s1, se)
        /\ se = Len(ts)
        /\ day \in 1..31 /\ mon \in 1..12 /\ hr \in 0..23
        /\ mi \in 0..59 /\ sec \in 0..61
        /\ yr >= 1 /\ day <= DaysInMonth(yr, mon) /\ sec <= 59

\* ---------------------------------------------------------------------------
\* analyze_log_line
\* ---------------------------------------------------------------------------
\* problems.append(tag) when cond holds
AppendIf(problems, cond, tag) == IF cond THEN Append(problems, tag) ELSE problems

\* f"Client error ({status_code})" and f"Server error ({status_code})"
StatusTag(kind, status_code) == kind \o " (" \o ToString(status_code) \o ")"

\* Variant of StatusProblems: the server-error range takes in 600
StatusProblems_Through600(problems, status_code) ==
    IF 400 <= status_code /\ status_code < 500
    THEN Append(problems, StatusTag("Client error", status_code))
    ELSE IF 500 <= status_code /\ status_code <= 600
    THEN Append(problems, StatusTag("Server error", status_code))
    ELSE problems

\* The status-code check: at most one of the two tags
StatusProblems(problems, status_code) ==
    IF 400 <= status_code /\ status_code < 500
    THEN Append(problems, StatusTag("Client error", status_code))
    ELSE IF 500 <= status_code /\ status_code < 600
    THEN Append(problems, StatusTag("Server error", status_code))
    ELSE problems

\* Variant of HighRequestCheck: the set of high-request IPs is not passed
\* on (the parameter keeps its default, None)
HighRequestCheck_NoSet(ip, high_request_ips) == FALSE

\* The high-request check: high_request_ips is truthy and holds the ip
HighRequestCheck(ip, high_request_ips) ==
    high_request_ips # {} /\ ip \in high_request_ips

\* The checks that follow the integer conversion, in the order of the code
RuleProblems(g, problems, bot_detected, status_code, response_time_ms, bytes_transferred) ==
    LET pb == AppendIf(problems, bot_detected, "Bot detected")
        ps == StatusProblems(pb, status_code)
        pr == AppendIf(ps, response_time_ms > 500, "Slow response (>500ms)")
        pu == AppendIf(pr, g.user_agent \in {<<"-">>, <<>>}, "Missing user agent")
        pp == AppendIf(pu, SuspiciousPathSearch(g.path), "Suspicious path")
        pa == AppendIf(pp, g.auth = <<"N", "O">>, "Authentication failed")
        pt == AppendIf(pa, ~StrptimeOk(g.timestamp), "Invalid timestamp")
    IN  AppendIf(pt, bytes_transferred > 1000000, "Large transfer (>1MB)")

\* Variant of InvalidNumeric: the handler returns a fresh one-tag list, as
\* the return for a malformed line does
InvalidNumeric_FreshList(problems, is_high_request) ==
    [problems        |-> <<"Invalid numerical values">>,
     data_point      |-> <<>>,
     bot_detected    |-> FALSE,
     bot_name        |-> <<>>,
     is_high_request |-> is_high_request]

\* The ValueError handler of the integer conversion (lines 133-135)
InvalidNumeric(problems, is_high_request) ==
    [problems        |-> Append(problems, "Invalid numerical values"),
     data_point      |-> <<>>,
     bot_detected    |-> FALSE,
     bot_name        |-> <<>>,
     is_high_request |-> is_high_request]

\* The return of line 118, for a line the pattern does not match
MalformedResult ==
    [problems        |-> <<"Malformed log entry">>,
     data_point      |-> <<>>,
     bot_detected    |-> FALSE,
     bot_name        |-> <<>>,
     is_high_request |-> FALSE]

\* Lines 137-200: bot detection, the rule checks and the data point
AnalyzeRecord(g, problems, is_high_request, status_code, response_time_ms, bytes_transferred, bot_detected) ==
    [problems        |-> RuleProblems(g, problems, bot_detected, status_code,
                                      response_time_ms, bytes_transferred),
     data_point      |-> << [status        |-> status_code,
                             response_time |-> response_time_ms,
                             bytes         |-> bytes_transferred,
                             path          |-> g.path,
                             method        |-> g.method,
                             ip            |-> g.ip,
                             user_agent    |-> g.user_agent] >>,
     bot_detected    |-> bot_detected,
     bot_name        |-> IF bot_detected THEN BotName(g.user_agent) ELSE <<>>,
     is_high_request |-> is_high_request]

\* Lines 129-135: the three integer conversions, each <<value>> or <<>>
\* (ValueError), and what follows them
AnalyzeNumbers(g, problems, is_high_request, status_code, response_time_ms, bytes_transferred) ==
    IF <<>> \in {status_code, response_time_ms, bytes_transferred}
    THEN InvalidNumeric(problems, is_high_request)
    ELSE AnalyzeRecord(g, problems, is_high_request, status_code[1],
                       response_time_ms[1], bytes_transferred[1],
                       is_bot(g.user_agent))

\* Lines 121-126: the groups of the match and the high-request check
AnalyzeGroups(g, is_high_request) ==
    AnalyzeNumbers(g,
                   AppendIf(<<>>, is_high_request,
                            "High request count (potential bot)"),
                   is_high_request,
                   IntOf(g.status), IntOf(g.response_time),
                   IntOf(g.bytes_sent))

\* Lines 115-118: the outcome of the match
AnalyzeMatch(match, high_request_ips) ==
    IF match = <<>>
    THEN MalformedResult
    ELSE AnalyzeGroups(match[1], HighRequestCheck(match[1].ip, high_request_ips))

\* analyze_log_line(line, high_request_ips): the tuple it returns
analyze_log_line(line, high_request_ips) ==
    AnalyzeMatch(LogMatch(Strip(line)), high_request_ips)

\* ---------------------------------------------------------------------------
\* main: the state of one run
\* ---------------------------------------------------------------------------
VARIABLES
    pc,                  \* where main stands
    log_available,       \* what download_log_file() returns
    file,                \* the lines of sample-log.log
    lines_read,          \* lines the first pass has read
    line_number,         \* enumerate(file, 1) of the second pass
    total_lines, problem_lines, problem_counts, status_codes,
    response_times, suspicious_paths, ip_addresses, http_methods,
    bot_stats, bot_types, problematic_entries,
    high_request_ips,    \* <<>> until line 414 binds it, then <<the set>>
    issues, data_point, is_bot_flag, bot_name, is_high_request,
    human_traffic,       \* of visualize_data: <<>> until computed
    out                  \* what has been printed and written

vars ==
    <<pc, log_available, file, lines_read, line_number, total_lines,
      problem_lines, problem_counts, status_codes, response_times,
      suspicious_paths, ip_addresses, http_methods, bot_stats, bot_types,
      problematic_entries, high_request_ips, issues, data_point, is_bot_flag,
      bot_name, is_high_request, human_traffic, out>>

\* Counter(): no key counted yet
EmptyCounter == <<>>

\* counter[key] += 1
Inc(counter, key) ==
    IF key \in DOMAIN counter
    THEN [counter EXCEPT ![key] = @ + 1]
    ELSE [k \in DOMAIN counter \cup {key} |->
             IF k = key THEN 1 ELSE counter[k]]

\* counter.update(keys): one count for every element of the list
RECURSIVE Update(_, _)
Update(counter, keys) ==
    IF keys = <<>> THEN counter
    ELSE Update(Inc(counter, Head(keys)), Tail(keys))

\* counter[key] of a Counter: 0 for a key never counted
Count(counter, key) == IF key \in DOMAIN counter THEN counter[key] ELSE 0

\* The aggregate state the second pass updates
AggState ==
    [total_lines         |-> total_lines,
     problem_lines       |-> problem_lines,
     problem_counts      |-> problem_counts,
     status_codes        |-> status_codes,
     response_times      |-> response_times,
     suspicious_paths    |-> suspicious_paths,
     http_methods        |-> http_methods,
     bot_stats           |-> bot_stats,
     bot_types           |-> bot_types,
     problematic_entries |-> problematic_entries]

\* The counters as main initialises them (lines 384-402)
InitAgg ==
    [total_lines         |-> 0,
     problem_lines       |-> 0,
     problem_counts      |-> EmptyCounter,
     status_codes        |-> EmptyCounter,
     response_times      |-> <<>>,
     suspicious_paths    |-> EmptyCounter,
     http_methods        |-> EmptyCounter,
     bot_stats           |-> [total_bots        |-> 0,
                              bot_ips           |-> EmptyCounter,
                              bot_paths         |-> EmptyCounter,
                              bot_status_codes  |-> EmptyCounter,
                              high_request_bots |-> 0],
     bot_types           |-> EmptyCounter,
     problematic_entries |-> <<>>]

\* Variant of CountIp: the first pass counts a line only when the whole
\* pattern of analyze_log_line matches it
CountIp_FullGrammar(counts, line) ==
    LET match == LogMatch(Strip(line))
    IN  IF match # <<>> THEN Inc(counts, match[1].ip) ELSE counts

\* The first pass on one line: count the leading IP token, if there is one
CountIp(counts, line) ==
    LET match == IpPrefixMatch(Strip(line))
    IN  IF match # <<>> THEN Inc(counts, match[1]) ELSE counts

\* Variant of HighRequestIps: the threshold test written as >= 30
HighRequestIps_AtLeast30(counts) == {ip \in DOMAIN counts : counts[ip] >= 30}

\* {ip for ip, count in ip_addresses.items() if count > 30}
HighRequestIps(counts) == {ip \in DOMAIN counts : counts[ip] > 30}

\* Variant of HasSuspiciousPath: the test reads the tags counted so far
\* instead of the tags of the line
HasSuspiciousPath_Seen(a, r) == "Suspicious path" \in DOMAIN a.problem_counts

\* "if 'Suspicious path' in issues"
HasSuspiciousPath(a, r) == \E n \in DOMAIN r.problems : r.problems[n] = "Suspicious path"

\* Variant of TrackBot: the per-status bot count is left out
TrackBot_NoStatus(stats, d) ==
    [stats EXCEPT !.total_bots       = @ + 1,
                  !.bot_ips          = Inc(@, d.ip),
                  !.bot_paths        = Inc(@, d.path)]

\* The bot-specific tracking of one record (lines 441-449)
TrackBot(stats, d) ==
    [stats EXCEPT !.total_bots       = @ + 1,
                  !.bot_ips          = Inc(@, d.ip),
                  !.bot_paths        = Inc(@, d.path),
                  !.bot_status_codes = Inc(@, d.status)]

\* "if bot_name: bot_types[bot_name] += 1": None and '' are falsy
TrackBotType(types, name) ==
    IF name # <<>> /\ name[1] # <<>> THEN Inc(types, name[1]) ELSE types

\* The detail record of a problematic line; list(set(issues)) keeps each
\* tag once, in no particular order
DetailEntry(n, d, problems) ==
    [line          |-> n,
     ip            |-> d.ip,
     method        |-> d.method,
     path          |-> d.path,
     status        |-> d.status,
     response_time |-> d.response_time,
     bytes         |-> d.bytes,
     issues        |-> Range(problems)]

\* Variant of Collect: the method count moved under the suspicious-path test
Collect_MethodUnderSuspicious(a, r) ==
    IF r.data_point = <<>> THEN a
    ELSE
    LET d  == r.data_point[1]
        a1 == [a EXCEPT !.status_codes   = Inc(@, d.status),
                        !.response_times = Append(@, d.response_time)]
        a2 == IF HasSuspiciousPath(a1, r)
              THEN [a1 EXCEPT !.suspicious_paths = Inc(@, d.path),
                              !.http_methods     = Inc(@, d.method)]
              ELSE a1
        a4 == IF r.bot_detected
              THEN [a2 EXCEPT !.bot_stats = TrackBot(@, d),
                              !.bot_types = TrackBotType(@, r.bot_name)]
              ELSE a2
    IN  IF r.is_high_request /\ ~r.bot_detected
        THEN [a4 EXCEPT !.bot_stats.high_request_bots = @ + 1]
        ELSE a4

\* Variant of Collect: the high-request bucket also takes the lines already
\* counted as bots
Collect_HighRequestAlsoBots(a, r) ==
    IF r.data_point = <<>> THEN a
    ELSE
    LET d  == r.data_point[1]
        a1 == [a EXCEPT !.status_codes   = Inc(@, d.status),
                        !.response_times = Append(@, d.response_time)]
        a2 == IF HasSuspiciousPath(a1, r)
              THEN [a1 EXCEPT !.suspicious_paths = Inc(@, d.path)]
              ELSE a1
        a3 == [a2 EXCEPT !.http_methods = Inc(@, d.method)]
        a4 == IF r.bot_detected
              THEN [a3 EXCEPT !.bot_stats = TrackBot(@, d),
                              !.bot_types = TrackBotType(@, r.bot_name)]
              ELSE a3
    IN  IF r.is_high_request
        THEN [a4 EXCEPT !.bot_stats.high_request_bots = @ + 1]
        ELSE a4

\* "if data_point:" (lines 427-453): the histograms of a parsed record
Collect(a, r) ==
    IF r.data_point = <<>> THEN a
    ELSE
    LET d  == r.data_point[1]
        a1 == [a EXCEPT !.status_codes   = Inc(@, d.status),
                        !.response_times = Append(@, d.response_time)]
        a2 == IF HasSuspiciousPath(a1, r)
              THEN [a1 EXCEPT !.suspicious_paths = Inc(@, d.path)]
              ELSE a1
        a3 == [a2 EXCEPT !.http_methods = Inc(@, d.method)]
        a4 == IF r.bot_detected
              THEN [a3 EXCEPT !.bot_stats = TrackBot(@, d),
                              !.bot_types = TrackBotType(@, r.bot_name)]
              ELSE a3
    IN  IF r.is_high_request /\ ~r.bot_detected
        THEN [a4 EXCEPT !.bot_stats.high_request_bots = @ + 1]
        ELSE a4

\* Variant of Record: the detail list is capped at ten entries
Record_FirstTen(a, r, n) ==
    IF r.problems = <<>> THEN a
    ELSE
    LET a1 == [a EXCEPT !.problem_lines  = @ + 1,
                        !.problem_counts = Update(@, r.problems)]
    IN  IF r.data_point # <<>> /\ Len(a.problematic_entries) < 10
        THEN [a1 EXCEPT !.problematic_entries =
                            Append(@, DetailEntry(n, r.data_point[1], r.problems))]
        ELSE a1

\* "if issues:" (lines 455-471): the problem counts and the detail list
Record(a, r, n) ==
    IF r.problems = <<>> THEN a
    ELSE
    LET a1 == [a EXCEPT !.problem_lines  = @ + 1,
                        !.problem_counts = Update(@, r.problems)]
    IN  IF r.data_point # <<>>
        THEN [a1 EXCEPT !.problematic_entries =
                            Append(@, DetailEntry(n, r.data_point[1], r.problems))]
        ELSE a1

\* The body of the second-pass loop for line number n, given the result r
\* of analyze_log_line
ProcessLine(a, r, n) ==
    Record(Collect([a EXCEPT !.total_lines = @ + 1], r), r, n)

\* The first pass over a whole file (lines 406-411)
RECURSIVE Tally(_, _)
Tally(counts, lines) ==
    IF lines = <<>> THEN counts
    ELSE Tally(CountIp(counts, Head(lines)), Tail(lines))

\* The second pass over a whole file (lines 419-471), from line number n
RECURSIVE SecondPass(_, _, _, _)
SecondPass(a, lines, n, high) ==
    IF lines = <<>> THEN a
    ELSE SecondPass(ProcessLine(a, analyze_log_line(Head(lines), high), n),
                    Tail(lines), n + 1, high)

\* The aggregate counts of main among the fields of an aggregate state
\* and a tally
CountsOf(a, tally) ==
    [total_lines      |-> a.total_lines,
     problem_lines    |-> a.problem_lines,
     problem_counts   |-> a.problem_counts,
     status_codes     |-> a.status_codes,
     http_methods     |-> a.http_methods,
     suspicious_paths |-> a.suspicious_paths,
     ip_addresses     |-> tally,
     bot_stats        |-> a.bot_stats,
     bot_types        |-> a.bot_types]

\* The aggregate counts after both passes over the file f
RunBothPasses(f) ==
    CountsOf(SecondPass(InitAgg, f, 1, HighRequestIps(Tally(EmptyCounter, f))),
             Tally(EmptyCounter, f))

\* ---------------------------------------------------------------------------
\* The inputs: log lines and log files
\* ---------------------------------------------------------------------------
\* A line in the layout of the grammar, from its fields
MkLine(ip, auth, timestamp, method, path, status, bytes_sent, user_agent, response_time) ==
    ip \o <<" ", "-", " ">> \o auth \o <<" ", "-", " ", "[">> \o timestamp
       \o <<"]", " ", "\"">> \o method \o <<" ">> \o path
       \o <<" ", "H", "T", "T", "P", "/", "1", ".", "1", "\"", " ">>
       \o status \o <<" ">> \o bytes_sent
       \o <<" ", "\"", "-", "\"", " ", "\"">> \o user_agent
       \o <<"\"", " ">> \o response_time \o <<"\n">>

IP_A == <<"1", "0", ".", "0", ".", "0", ".", "5">>
IP_B == <<"1", "0", ".", "0", ".", "0", ".", "6">>
IP_C == <<"1", "0", ".", "0", ".", "0", ".", "7">>

AUTH_USER == <<"a", "l", "i", "c", "e">>
AUTH_NO   == <<"N", "O">>

TS_GOOD == <<"0", "1", "/", "0", "1", "/", "2", "0", "2", "4", ":", "1", "2", ":", "0", "0", ":", "0", "1">>
TS_BAD  == <<"3", "2", "/", "1", "3", "/", "2", "0", "2", "4", ":", "9", "9", ":", "9", "9", ":", "9", "9">>

GET  == <<"G", "E", "T">>
POST == <<"P", "O", "S", "T">>

PATH_HOME  == <<"/", "i", "n", "d", "e", "x", ".", "h", "t", "m", "l">>
PATH_ADMIN == <<"/", "w", "p", "-", "a", "d", "m", "i", "n">>

UA_BROWSER   == <<"M", "o", "z", "i", "l", "l", "a", "/", "5", ".", "0">>
UA_GOOGLEBOT == <<"G", "o", "o", "g", "l", "e", "b", "o", "t", "/", "2", ".", "1">>
UA_CURL      == <<"M", "o", "z", "i", "l", "l", "a", "/", "5", ".", "0", " ", "c", "u", "r", "l", "/", "7", ".", "6", "8">>
UA_ANON_BOT  == <<"m", "y", " ", "b", "o", "t">>
UA_DASH      == <<"-">>

\* A digit string of n digits
DigitString(n) == [i \in 1..n |-> "1"]

\* A digit string one digit longer than int() converts
TooManyDigits == DigitString(INT_MAX_STR_DIGITS + 1)

\* A request with no problem
CleanLine(ip) ==
    MkLine(ip, AUTH_USER, TS_GOOD, GET, PATH_HOME, <<"2", "0", "0">>,
           <<"5", "1", "2">>, UA_BROWSER, <<"2", "0">>)

\* A named crawler probing the admin page without authentication, slowly
NamedBotLine(ip) ==
    MkLine(ip, AUTH_NO, TS_GOOD, GET, PATH_ADMIN, <<"4", "0", "4">>,
           <<"5", "1", "2">>, UA_GOOGLEBOT, <<"6", "5", "0">>)

\* A bot whose user agent gives no name, a server error, a bad timestamp
\* and a transfer over 1 MB
AnonBotLine(ip) ==
    MkLine(ip, AUTH_USER, TS_BAD, POST, PATH_HOME, <<"5", "0", "0">>,
           <<"2", "0", "0", "0", "0", "0", "0">>, UA_ANON_BOT, <<"2", "0">>)

\* A line that starts like a request of ip and then leaves the grammar
TruncatedLine(ip) == ip \o <<" ", "-", " ", "a", "l", "i", "c", "e", " ", "-", " ", "[", "0", "1", "/", "0", "1", "/", "2", "0", "2", "4">> \o <<"\n">>

\* A line with no leading "IP -"
JunkLine == <<"#", " ", "r", "o", "t", "a", "t", "e", "d">> \o <<"\n">>

\* The request of NamedBotLine with a response time int() cannot convert
HugeLine(ip) ==
    MkLine(ip, AUTH_NO, TS_GOOD, GET, PATH_ADMIN, <<"4", "0", "4">>,
           <<"5", "1", "2">>, UA_GOOGLEBOT, TooManyDigits)

\* The log files of the model: a block of BulkLen requests of one client,
\* or no block, with up to MaxExtra further lines before and after it, so
\* that a client's tally lies on either side of the threshold of 30.
BulkLen == 29

MaxExtra == 2

ExtraLines ==
    {CleanLine(IP_A), NamedBotLine(IP_A), TruncatedLine(IP_A),
     AnonBotLine(IP_B), CleanLine(IP_C), JunkLine, HugeLine(IP_A)}

BulkLines == {CleanLine(IP_A)}

SeqsUpTo(S, n) == UNION {[1..k -> S] : k \in 0..n}

Repeat(line, n) == [i \in 1..n |-> line]

ExtraPairs ==
    {pp \in SeqsUpTo(ExtraLines, MaxExtra) \X SeqsUpTo(ExtraLines, MaxExtra) :
        Len(pp[1]) + Len(pp[2]) <= MaxExtra}

LogFiles ==
    {pp[1] \o Repeat(b, n) \o pp[2] :
        pp \in ExtraPairs, b \in BulkLines, n \in {0, BulkLen}}

\* The requests of the rule checks: one client's requests with every
\* combination of the fields the checks read, the numbers on both sides of
\* each threshold
RuleStatuses ==
    { <<"2", "0", "0">>, <<"3", "9", "9">>, <<"4", "0", "0">>, <<"4", "9", "9">>,
      <<"5", "0", "0">>, <<"5", "9", "9">>, <<"6", "0", "0">> }

RuleResponseTimes == { <<"5", "0", "0">>, <<"5", "0", "1">> }

RuleBytes ==
    { <<"1", "0", "0", "0", "0", "0", "0">>, <<"1", "0", "0", "0", "0", "0", "1">> }

RuleUserAgents == {UA_BROWSER, UA_GOOGLEBOT, UA_CURL, UA_DASH, <<>>}

RuleLines ==
    {MkLine(IP_A, auth, ts, GET, path, status, bytes_sent, ua, rt) :
        auth \in {AUTH_USER, AUTH_NO}, ts \in {TS_GOOD, TS_BAD},
        path \in {PATH_HOME, PATH_ADMIN}, status \in RuleStatuses,
        bytes_sent \in RuleBytes, ua \in RuleUserAgents,
        rt \in RuleResponseTimes}

\* The block of further requests that takes the client over the threshold
RuleBulkLen == 30

\* The files of the rule checks: one request, alone or followed by the block
RuleFiles ==
    {<<line>> \o Repeat(CleanLine(IP_A), n) :
        line \in RuleLines, n \in {0, RuleBulkLen}}

\* ---------------------------------------------------------------------------
\* main: the steps of one run
\* ---------------------------------------------------------------------------
\* The state of main before it reads anything (lines 384-402)
StartState ==
    /\ pc = "start"
    /\ lines_read = 0
    /\ line_number = 0
    /\ total_lines = InitAgg.total_lines
    /\ problem_lines = InitAgg.problem_lines
    /\ problem_counts = InitAgg.problem_counts
    /\ status_codes = InitAgg.status_codes
    /\ response_times = InitAgg.response_times
    /\ suspicious_paths = InitAgg.suspicious_paths
    /\ ip_addresses = EmptyCounter
    /\ http_methods = InitAgg.http_methods
    /\ bot_stats = InitAgg.bot_stats
    /\ bot_types = InitAgg.bot_types
    /\ problematic_entries = InitAgg.problematic_entries
    /\ high_request_ips = <<>>
    /\ issues = <<>>
    /\ data_point = <<>>
    /\ is_bot_flag = FALSE
    /\ bot_name = <<>>
    /\ is_high_request = FALSE
    /\ human_traffic = <<>>
    /\ out = <<>>

Init ==
    /\ log_available \in BOOLEAN
    /\ file \in (IF log_available THEN LogFiles ELSE {<<>>})
    /\ StartState

\* The same run on the files of the rule checks
InitRules ==
    /\ log_available \in BOOLEAN
    /\ file \in (IF log_available THEN RuleFiles ELSE {<<>>})
    /\ StartState

aggVars ==
    <<total_lines, problem_lines, problem_counts, status_codes,
      response_times, suspicious_paths, http_methods, bot_stats, bot_types,
      problematic_entries>>

lineVars == <<issues, data_point, is_bot_flag, bot_name, is_high_request>>

\* download_log_file() returned False: main reports it and returns
Abort ==
    /\ pc = "start"
    /\ ~log_available
    /\ pc' = "aborted"
    /\ out' = Append(out, "Analysis aborted due to missing log file.")
    /\ UNCHANGED <<log_available, file, lines_read, line_number, aggVars,
                   ip_addresses, high_request_ips, lineVars, human_traffic>>

\* download_log_file() returned True: the first pass opens the file
Begin ==
    /\ pc = "start"
    /\ log_available
    /\ pc' = "pass1"
    /\ out' = out \o <<"Analyzing log file", "First pass">>
    /\ UNCHANGED <<log_available, file, lines_read, line_number, aggVars,
                   ip_addresses, high_request_ips, lineVars, human_traffic>>

\* One iteration of the first-pass loop
Pass1Line ==
    /\ pc = "pass1"
    /\ lines_read < Len(file)
    /\ lines_read' = lines_read + 1
    /\ ip_addresses' = CountIp(ip_addresses, file[lines_read + 1])
    /\ UNCHANGED <<pc, log_available, file, line_number, aggVars,
                   high_request_ips, lineVars, human_traffic, out>>

\* Variant of Pass1End: the second pass starts without waiting for the
\* first pass to reach the end of the file
Pass1End_Early ==
    /\ pc = "pass1"
    /\ high_request_ips' = <<HighRequestIps(ip_addresses)>>
    /\ pc' = "pass2"
    /\ out' = out \o <<"Found IPs with >30 requests", "Second pass">>
    /\ UNCHANGED <<log_available, file, lines_read, line_number, aggVars,
                   ip_addresses, lineVars, human_traffic>>

\* The first pass has read the file: the high-request IPs are computed
Pass1End ==
    /\ pc = "pass1"
    /\ lines_read = Len(file)
    /\ high_request_ips' = <<HighRequestIps(ip_addresses)>>
    /\ pc' = "pass2"
    /\ out' = out \o <<"Found IPs with >30 requests", "Second pass">>
    /\ UNCHANGED <<log_available, file, lines_read, line_number, aggVars,
                   ip_addresses, lineVars, human_traffic>>

\* One iteration of the second-pass loop
Pass2Line ==
    /\ pc = "pass2"
    /\ line_number < Len(file)
    /\ \E r \in {analyze_log_line(file[line_number + 1], high_request_ips[1])} :
       \E a \in {ProcessLine(AggState, r, line_number + 1)} :
           /\ issues' = r.problems
           /\ data_point' = r.data_point
           /\ is_bot_flag' = r.bot_detected
           /\ bot_name' = r.bot_name
           /\ is_high_request' = r.is_high_request
           /\ total_lines' = a.total_lines
           /\ problem_lines' = a.problem_lines
           /\ problem_counts' = a.problem_counts
           /\ status_codes' = a.status_codes
           /\ response_times' = a.response_times
           /\ suspicious_paths' = a.suspicious_paths
           /\ http_methods' = a.http_methods
           /\ bot_stats' = a.bot_stats
           /\ bot_types' = a.bot_types
           /\ problematic_entries' = a.problematic_entries
    /\ line_number' = line_number + 1
    /\ UNCHANGED <<pc, log_available, file, lines_read, ip_addresses,
                   high_request_ips, human_traffic, out>>

\* The second pass has read the file
Pass2End ==
    /\ pc = "pass2"
    /\ line_number = Len(file)
    /\ pc' = "summary"
    /\ UNCHANGED <<log_available, file, lines_read, line_number, aggVars,
                   ip_addresses, high_request_ips, lineVars, human_traffic,
                   out>>

\* The summary statistics (lines 477-486).  The two percentages of lines
\* 481-483 divide by total_lines.
Summary ==
    /\ pc = "summary"
    /\ IF total_lines = 0
       THEN /\ pc' = "ZeroDivisionError"
            /\ out' = out \o <<"Analysis Summary:", "Total lines processed",
                               "Problematic lines found">>
       ELSE /\ pc' = "report"
            /\ out' = out \o <<"Analysis Summary:", "Total lines processed",
                               "Problematic lines found", "Known bots detected",
                               "High-request IPs detected",
                               "Percentage problematic">>
    /\ UNCHANGED <<log_available, file, lines_read, line_number, aggVars,
                   ip_addresses, high_request_ips, lineVars, human_traffic>>

\* The listings (lines 488-537): the problematic requests are printed and
\* saved when there are any
Report ==
    /\ pc = "report"
    /\ pc' = "visualize"
    /\ out' = Append(out, IF problematic_entries # <<>>
                          THEN "Saved full report"
                          ELSE "No problematic requests found")
    /\ UNCHANGED <<log_available, file, lines_read, line_number, aggVars,
                   ip_addresses, high_request_ips, lineVars, human_traffic>>

\* visualize_data: the traffic composition of panel 7
Visualize ==
    /\ pc = "visualize"
    /\ human_traffic' =
           <<total_lines - bot_stats.total_bots - bot_stats.high_request_bots>>
    /\ pc' = "done"
    /\ out' = Append(out, "Visualization saved")
    /\ UNCHANGED <<log_available, file, lines_read, line_number, aggVars,
                   ip_addresses, high_request_ips, lineVars>>

Next ==
    \/ Abort
    \/ Begin
    \/ Pass1Line
    \/ Pass1End
    \/ Pass2Line
    \/ Pass2End
    \/ Summary
    \/ Report
    \/ Visualize

Spec == Init /\ [][Next]_vars

SpecRules == InitRules /\ [][Next]_vars

\* ---------------------------------------------------------------------------
\* Properties
\* ---------------------------------------------------------------------------
HIGH_REQUEST == "High request count (potential bot)"

INVALID_NUMERIC == "Invalid numerical values"

MALFORMED == "Malformed log entry"

HasTag(problems, tag) == \E n \in DOMAIN problems : problems[n] = tag

\* The leading IP token of a line, as the first pass reads it
LeadingIp(line) == IpPrefixMatch(Strip(line))

\* The number of lines of f whose leading token is ip
LinesOf(f, ip) == Cardinality({i \in DOMAIN f : LeadingIp(f[i]) = <<ip>>})

\* The second pass has just processed a line
Evaluated == pc = "pass2" /\ line_number > 0

\* The line the second pass has just processed
CurrentLine == file[line_number]

\* C1, on the lines that yield a record: the record carries the
\* high-request tag exactly when the first-pass tally of its IP is over 30
C1_TagIffTally ==
    (Evaluated /\ data_point # <<>>)
        => (HasTag(issues, HIGH_REQUEST)
                <=> Count(ip_addresses, data_point[1].ip) > 30)

\* C1, on the tally: when the first pass ends, the tally of every IP is the
\* number of lines whose leading token is that IP
C1_TallyIsLineCount ==
    (pc = "pass2" /\ line_number = 0)
        => \A ip \in DOMAIN ip_addresses \cup {IP_A, IP_B, IP_C} :
               Count(ip_addresses, ip) = LinesOf(file, ip)

\* C1, on one line's effect: a first-pass step changes the tally of no IP
\* other than the leading token of the line it reads
C1_OtherTalliesKept ==
    (pc = "pass1" /\ lines_read' = lines_read + 1)
        => \A ip \in DOMAIN ip_addresses \cup DOMAIN ip_addresses' :
               LeadingIp(file[lines_read + 1]) # <<ip>>
                   => Count(ip_addresses', ip) = Count(ip_addresses, ip)

\* C1: a parsed record carries HighRequestCount if and only if the
\* first-pass tally of its IP is strictly greater than 30; the tally of an IP
\* counts exactly the lines whose leading token is that IP, and reading a
\* line changes the tally of no other IP.
C1_HighRequestIffTallyOver30 ==
    /\ [](C1_TagIffTally /\ C1_TallyIsLineCount)
    /\ [][C1_OtherTalliesKept]_vars

\* A record of an IP with a tally of exactly 31 has just been tagged
C1_Witness ==
    /\ Evaluated
    /\ data_point # <<>>
    /\ Count(ip_addresses, data_point[1].ip) = 31
    /\ HasTag(issues, HIGH_REQUEST)

\* The line matches the log grammar
MatchesGrammar(line) == LogMatch(Strip(line)) # <<>>

\* The tally of the leading IP token of the line is over 30
CountedOver30(line) ==
    /\ LeadingIp(line) # <<>>
    /\ Count(ip_addresses, LeadingIp(line)[1]) > 30

\* The tally of every high-request IP is the number of lines counted for it
C2_TallyExact ==
    (pc = "summary")
        => \A ip \in high_request_ips[1] : ip_addresses[ip] = LinesOf(file, ip)

\* C2 as claimed: every line counted toward a tally over 30 carries
\* HighRequestCount in the second pass, and the tally is the number of
\* those lines.
C2_EveryCountedLineTagged ==
    /\ (Evaluated /\ CountedOver30(CurrentLine))
           => HasTag(issues, HIGH_REQUEST)
    /\ C2_TallyExact

\* C2 amended: every line counted toward a tally over 30 that matches the
\* log grammar carries HighRequestCount in the second pass, a counted line
\* that does not match it carries MalformedEntry alone, and the tally is the
\* number of lines counted.
C2_EveryCountedGrammarLineTagged ==
    /\ (Evaluated /\ CountedOver30(CurrentLine))
           => IF MatchesGrammar(CurrentLine)
              THEN HasTag(issues, HIGH_REQUEST)
              ELSE issues = <<MALFORMED>>
    /\ C2_TallyExact

\* The last line of a file that holds a truncated line of the client is
\* tagged, and the client's tally of 31 includes the truncated line
C2_Witness ==
    /\ Evaluated
    /\ line_number = Len(file)
    /\ CountedOver30(CurrentLine)
    /\ HasTag(issues, HIGH_REQUEST)
    /\ LeadingIp(CurrentLine) = <<IP_A>>
    /\ Count(ip_addresses, IP_A) = 31
    /\ \E i \in DOMAIN file : file[i] = TruncatedLine(IP_A)

\* The line matches the grammar and int() fails on one of its three numbers
ConversionFails(line) ==
    LET m == LogMatch(Strip(line))
    IN  /\ m # <<>>
        /\ <<>> \in {IntOf(m[1].status), IntOf(m[1].response_time),
                     IntOf(m[1].bytes_sent)}

\* C3 as claimed: when the line matches the grammar and the integer
\* conversion fails, there is no record and the tag list is exactly
\* [InvalidNumericValue], also for a high-volume IP.
C3_OnlyInvalidNumeric ==
    (Evaluated /\ ConversionFails(CurrentLine))
        => data_point = <<>> /\ issues = <<INVALID_NUMERIC>>

\* C3 amended: when the line matches the grammar and the integer conversion
\* fails, there is no record, no bot is reported, and the tag list is
\* [InvalidNumericValue], preceded by HighRequestCount when the tally of the
\* line's IP is over 30; no later tag is emitted.
C3_InvalidNumericAfterHighRequest ==
    (Evaluated /\ ConversionFails(CurrentLine))
        => /\ data_point = <<>>
           /\ ~is_bot_flag
           /\ bot_name = <<>>
           /\ issues = IF CountedOver30(CurrentLine)
                       THEN <<HIGH_REQUEST, INVALID_NUMERIC>>
                       ELSE <<INVALID_NUMERIC>>

\* A line of a high-volume IP whose response time does not convert has
\* just been evaluated
C3_Witness ==
    /\ Evaluated
    /\ ConversionFails(CurrentLine)
    /\ CountedOver30(CurrentLine)
    /\ issues = <<HIGH_REQUEST, INVALID_NUMERIC>>

\* The second pass processes the next line, which does not match the grammar
MalformedPass2Step ==
    /\ pc = "pass2"
    /\ line_number' = line_number + 1
    /\ ~MatchesGrammar(file[line_number + 1])

\* The first pass reads the next line, which does not match the grammar
MalformedPass1Step ==
    /\ pc = "pass1"
    /\ lines_read' = lines_read + 1
    /\ ~MatchesGrammar(file[lines_read + 1])

\* What the second pass does with a line that does not match the grammar:
\* the single tag MalformedEntry and no record, no field-based histogram
\* changes, the line count, the problem-line count and the count of the tag
\* grow by one
C4_MalformedInPass2 ==
    MalformedPass2Step
        => /\ issues' = <<MALFORMED>>
           /\ data_point' = <<>>
           /\ UNCHANGED <<status_codes, response_times, http_methods,
                          suspicious_paths, bot_stats, bot_types,
                          problematic_entries, ip_addresses>>
           /\ total_lines' = total_lines + 1
           /\ problem_lines' = problem_lines + 1
           /\ \A tag \in DOMAIN problem_counts \cup DOMAIN problem_counts' :
                  Count(problem_counts', tag) =
                      Count(problem_counts, tag) + (IF tag = MALFORMED THEN 1 ELSE 0)

\* C4 as claimed: a line that does not match the grammar gets the single
\* tag MalformedEntry and no record, and it changes none of the field-based
\* histograms, the per-IP request counts included, in either pass.
C4_MalformedChangesNoHistogram ==
    [][/\ C4_MalformedInPass2
       /\ MalformedPass1Step => UNCHANGED <<aggVars, ip_addresses>>]_vars

\* C4 amended: a line that does not match the grammar gets the single tag
\* MalformedEntry and no record; the second pass changes only the line
\* count, the problem-line count and the count of that tag because of it,
\* and the first pass adds one to the per-IP request count of its leading
\* token when the line starts with "TOKEN -", and changes nothing else.
C4_MalformedChangesOnlyIpTally ==
    [][/\ C4_MalformedInPass2
       /\ MalformedPass1Step
              => /\ UNCHANGED aggVars
                 /\ \A ip \in DOMAIN ip_addresses \cup DOMAIN ip_addresses'
                              \cup {IP_A} :
                        Count(ip_addresses', ip) =
                            Count(ip_addresses, ip)
                                + (IF LeadingIp(file[lines_read + 1]) = <<ip>>
                                   THEN 1 ELSE 0)]_vars

\* The run of a file whose only line is a truncated request has ended: the
\* line is counted, tagged and tallied for its leading token, and no
\* histogram holds anything
C4_Witness ==
    /\ pc = "done"
    /\ file = <<TruncatedLine(IP_A)>>
    /\ total_lines = 1
    /\ problem_lines = 1
    /\ problem_counts = Inc(EmptyCounter, MALFORMED)
    /\ Count(ip_addresses, IP_A) = 1
    /\ status_codes = EmptyCounter
    /\ http_methods = EmptyCounter
    /\ response_times = <<>>
    /\ bot_stats = InitAgg.bot_stats
    /\ problematic_entries = <<>>

\* What analyze_log_line returns for line i of the file in the second pass
ResultOf(i) == analyze_log_line(file[i], high_request_ips[1])

\* The lines that received at least one tag
TaggedLines == {i \in DOMAIN file : ResultOf(i).problems # <<>>}

\* The tagged lines that produced a record
TaggedRecordLines == {i \in TaggedLines : ResultOf(i).data_point # <<>>}

\* The detail list holds exactly one detail record for every line of the
\* set, in increasing line number, each with the line's tags
DetailListIs(lines) ==
    /\ Len(problematic_entries) = Cardinality(lines)
    /\ {problematic_entries[j].line : j \in DOMAIN problematic_entries} = lines
    /\ \A j, k \in DOMAIN problematic_entries :
           j < k => problematic_entries[j].line < problematic_entries[k].line
    /\ \A j \in DOMAIN problematic_entries :
           problematic_entries[j].issues =
               Range(ResultOf(problematic_entries[j].line).problems)

\* C5 as claimed: after the second pass the detail list holds exactly one
\* detail record for every line that received at least one tag and none for
\* a clean line, in increasing line number, with no cap.
C5_DetailForEveryTaggedLine ==
    (pc = "summary") => DetailListIs(TaggedLines)

\* C5 amended: after the second pass the detail list holds exactly one
\* detail record for every line that received at least one tag and produced
\* a record, and none for a clean line or for a tagged line without a record
\* (MalformedEntry, InvalidNumericValue), in increasing line number, with no
\* cap; every tagged line is counted as a problem line.
C5_DetailForEveryTaggedRecord ==
    (pc = "summary")
        => /\ DetailListIs(TaggedRecordLines)
           /\ problem_lines = Cardinality(TaggedLines)

\* The second pass has ended on a file of 31 lines of one client, one of
\* them truncated: every line is tagged and 30 lines have a detail record
C5_Witness ==
    /\ pc = "summary"
    /\ total_lines = 31
    /\ problem_lines = 31
    /\ Len(problematic_entries) = 30
    /\ \E i \in DOMAIN file : file[i] = TruncatedLine(IP_A)

BOT_DETECTED == "Bot detected"

BOT == <<"b", "o", "t">>

RECURSIVE SumOver(_, _)
SumOver(counter, keys) ==
    IF keys = {} THEN 0
    ELSE LET k == CHOOSE x \in keys : TRUE
         IN  counter[k] + SumOver(counter, keys \ {k})

\* The sum of the counts of a Counter
SumCounts(counter) == SumOver(counter, DOMAIN counter)

\* The second pass processes the next line
Pass2Step == pc = "pass2" /\ line_number' = line_number + 1

\* The second pass processes the next line and tags it BotDetected
BotTaggedStep == Pass2Step /\ HasTag(issues', BOT_DETECTED)

\* The bot total and the per-IP, per-path and per-status bot counts each
\* grow by one for the record of the step
BotCountersGrow ==
    /\ bot_stats'.total_bots = bot_stats.total_bots + 1
    /\ bot_stats'.bot_ips = Inc(bot_stats.bot_ips, data_point'[1].ip)
    /\ bot_stats'.bot_paths = Inc(bot_stats.bot_paths, data_point'[1].path)
    /\ bot_stats'.bot_status_codes =
           Inc(bot_stats.bot_status_codes, data_point'[1].status)
    /\ bot_stats'.high_request_bots = bot_stats.high_request_bots

\* The names the claim lists: a token of the user agent that holds "bot",
\* or one of the four fixed names
ListedBotName(name, user_agent) ==
    \/ Contains(user_agent, name) /\ Contains(Lower(name), BOT)
    \/ name \in { <<"G", "o", "o", "g", "l", "e", "b", "o", "t">>,
                  <<"B", "i", "n", "g", "b", "o", "t">>,
                  <<"Y", "a", "h", "o", "o", " ", "S", "l", "u", "r", "p">>,
                  <<"U", "n", "k", "n", "o", "w", "n", " ", "B", "o", "t">> }

\* C6 as claimed: for every record tagged BotDetected the bot total and the
\* per-IP, per-path, per-status and per-bot-name counts each grow by
\* exactly one, every detected bot has one of the listed names, and the
\* per-bot-name counts sum to the bot total.
C6_EveryBotCountedByName ==
    /\ [][BotTaggedStep
              => /\ BotCountersGrow
                 /\ bot_name' # <<>>
                 /\ ListedBotName(bot_name'[1], data_point'[1].user_agent)
                 /\ bot_types' = Inc(bot_types, bot_name'[1])]_vars
    /\ [](SumCounts(bot_types) = bot_stats.total_bots)

\* C6 amended: for every record tagged BotDetected the bot total and the
\* per-IP, per-path and per-status bot counts each grow by exactly one, and
\* the count of the bot's name grows by one when a name was derived; a
\* derived name is one of the listed names, and no name is derived exactly
\* when the user agent holds "bot" but no token "<word>bot".  A record
\* without the tag changes none of these counts.  Hence the per-IP, per-path
\* and per-status bot counts each sum to the bot total, and the per-bot-name
\* counts sum to at most the bot total.
C6_EveryNamedBotCountedByName ==
    /\ [][/\ BotTaggedStep
              => /\ BotCountersGrow
                 /\ bot_name' = <<>>
                        <=> /\ Contains(Lower(data_point'[1].user_agent), BOT)
                            /\ BotPatternSearch(data_point'[1].user_agent) = <<>>
                 /\ bot_name' # <<>>
                        => ListedBotName(bot_name'[1], data_point'[1].user_agent)
                 /\ bot_types' = IF bot_name' # <<>>
                                 THEN Inc(bot_types, bot_name'[1])
                                 ELSE bot_types
          /\ (Pass2Step /\ ~HasTag(issues', BOT_DETECTED))
              => /\ bot_types' = bot_types
                 /\ bot_stats'.total_bots = bot_stats.total_bots
                 /\ bot_stats'.bot_ips = bot_stats.bot_ips
                 /\ bot_stats'.bot_paths = bot_stats.bot_paths
                 /\ bot_stats'.bot_status_codes = bot_stats.bot_status_codes]_vars
    /\ [](/\ SumCounts(bot_types) <= bot_stats.total_bots
          /\ SumCounts(bot_stats.bot_ips) = bot_stats.total_bots
          /\ SumCounts(bot_stats.bot_paths) = bot_stats.total_bots
          /\ SumCounts(bot_stats.bot_status_codes) = bot_stats.total_bots)

\* A named bot and then a bot whose user agent yields no name have been
\* counted: two bots, one name
C6_Witness ==
    /\ Evaluated
    /\ HasTag(issues, BOT_DETECTED)
    /\ bot_name = <<>>
    /\ bot_stats.total_bots = 2
    /\ SumCounts(bot_types) = 1
    /\ SumCounts(bot_stats.bot_paths) = 2

\* The groups of the line the second pass has just processed
CurrentGroups == LogMatch(Strip(CurrentLine))[1]

\* The tags in the fixed order of evaluation, each with its condition on the
\* fields of the line
TagConditions(g, status, response_time, bytes, tally) ==
    << <<HIGH_REQUEST, tally > 30>>,
       <<BOT_DETECTED, is_bot(g.user_agent)>>,
       <<StatusTag("Client error", status), 400 <= status /\ status < 500>>,
       <<StatusTag("Server error", status),
             ~(400 <= status /\ status < 500) /\ 500 <= status /\ status < 600>>,
       <<"Slow response (>500ms)", response_time > 500>>,
       <<"Missing user agent", g.user_agent = <<"-">> \/ g.user_agent = <<>> >>,
       <<"Suspicious path", SuspiciousPathSearch(g.path)>>,
       <<"Authentication failed", g.auth = <<"N", "O">> >>,
       <<"Invalid timestamp", ~StrptimeOk(g.timestamp)>>,
       <<"Large transfer (>1MB)", bytes > 1000000>> >>

\* The tags of the list whose conditions hold, in the order of the list
TagsThatHold(conditions) ==
    LET held == SelectSeq(conditions, LAMBDA c : c[2])
    IN  [n \in DOMAIN held |-> held[n][1]]

\* The reference evaluation of the line the second pass has just processed
ReferenceTags ==
    TagsThatHold(TagConditions(CurrentGroups,
                               DigitsValue(CurrentGroups.status),
                               DigitsValue(CurrentGroups.response_time),
                               DigitsValue(CurrentGroups.bytes_sent),
                               Count(ip_addresses, CurrentGroups.ip)))

\* The line matches the grammar and its three numbers convert
Parsed(line) == MatchesGrammar(line) /\ ~ConversionFails(line)

\* C7: for every parsed record the tag list is the reference evaluation:
\* exactly the tags whose conditions hold, each at most once, in the fixed
\* order; ClientError and ServerError never occur together, a status of 399
\* or 600 yields neither, and a record is always produced.
C7_TagsAreReferenceEvaluation ==
    (Evaluated /\ Parsed(CurrentLine))
        => /\ data_point # <<>>
           /\ issues = ReferenceTags
           /\ \A m, n \in DOMAIN issues : m # n => issues[m] # issues[n]
           /\ ~ /\ HasTag(issues, StatusTag("Client error", data_point[1].status))
                /\ HasTag(issues, StatusTag("Server error", data_point[1].status))
           /\ data_point[1].status \in {399, 600}
                  => /\ ~HasTag(issues, StatusTag("Client error", data_point[1].status))
                     /\ ~HasTag(issues, StatusTag("Server error", data_point[1].status))

\* A request of a high-volume client that meets eight conditions at once
\* has been evaluated
C7_Witness ==
    /\ Evaluated
    /\ Parsed(CurrentLine)
    /\ issues = <<HIGH_REQUEST, BOT_DETECTED, "Client error (499)",
                  "Slow response (>500ms)", "Suspicious path",
                  "Authentication failed", "Invalid timestamp",
                  "Large transfer (>1MB)">>

\* C8 as claimed: a run on an input source that can be read, whatever its
\* lines and also with no lines at all, ends with no run-level error; only
\* an unavailable source aborts the run, and then nothing but the abort
\* message is emitted.
C8_ReadableRunEndsWithoutError ==
    /\ pc # "ZeroDivisionError"
    /\ pc = "aborted"
           => ~log_available /\ out = <<"Analysis aborted due to missing log file.">>
    /\ ~log_available => pc \in {"start", "aborted"}

\* Nothing has been evaluated or aggregated, and no high-volume set exists
NothingEvaluated ==
    /\ line_number = 0
    /\ AggState = InitAgg
    /\ issues = <<>>
    /\ data_point = <<>>
    /\ high_request_ips = <<>>

\* The first pass has read the whole file, the tally is complete, and the
\* high-volume set is the set of IPs with more than 30 lines in the file
FirstPassComplete ==
    /\ lines_read = Len(file)
    /\ \A ip \in DOMAIN ip_addresses : ip_addresses[ip] = LinesOf(file, ip)
    /\ \A i \in DOMAIN file :
           LeadingIp(file[i]) # <<>> => LeadingIp(file[i])[1] \in DOMAIN ip_addresses
    /\ high_request_ips =
           << {ip \in DOMAIN ip_addresses : LinesOf(file, ip) > 30} >>

\* C9: the two passes are strictly sequential: no line is evaluated or
\* aggregated until the first pass has read the whole input and the
\* high-volume set has been computed from the complete tally, and from the
\* start of the second pass to the end of the run neither the high-volume
\* set nor the per-IP tally changes.
C9_PassesStrictlySequential ==
    /\ [](pc \in {"start", "pass1", "aborted"} => NothingEvaluated)
    /\ []((pc = "pass2" /\ line_number = 0) => FirstPassComplete)
    /\ [](pc \notin {"start", "pass1", "aborted"}
              => lines_read = Len(file) /\ high_request_ips # <<>>)
    /\ [][pc \notin {"start", "pass1"}
              => UNCHANGED <<high_request_ips, ip_addresses, lines_read>>]_vars

\* The second pass has evaluated the last of 31 lines against the
\* high-volume set of the complete tally
C9_Witness ==
    /\ Evaluated
    /\ line_number = Len(file)
    /\ Len(file) = 31
    /\ lines_read = 31
    /\ high_request_ips = <<{IP_A}>>
    /\ HasTag(issues, HIGH_REQUEST)

\* The file with lines i and i + 1 exchanged
SwapAt(f, i) ==
    [k \in DOMAIN f |-> IF k = i THEN f[i + 1] ELSE IF k = i + 1 THEN f[i] ELSE f[k]]

\* The file in the opposite order
Reverse(f) == [k \in DOMAIN f |-> f[Len(f) + 1 - k]]

\* The files that exchange two neighbouring lines of f (the exchanges that
\* generate every permutation), and f reversed
Rearrangements(f) == {SwapAt(f, i) : i \in 1..(Len(f) - 1)} \cup {Reverse(f)}

\* The aggregate counts of the run, at the end of the second pass
FinalCounts == CountsOf(AggState, ip_addresses)

\* C10: the final aggregate counts (total lines, problem lines, per-tag
\* counts, status-code histogram, method counts, suspicious-path counts,
\* per-IP counts, bot totals and sub-counters, high-request-but-not-bot
\* count) are the same for the file's lines in any other order: exchanging
\* two neighbouring lines, or reversing the file, changes none of them.
C10_CountsIndependentOfLineOrder ==
    (pc = "summary")
        => \A g \in Rearrangements(file) : RunBothPasses(g) = FinalCounts

\* The second pass has ended on a file in which a clean request follows a
\* request with several tags, and the other order gives the same counts
C10_Witness ==
    /\ pc = "summary"
    /\ file = <<NamedBotLine(IP_A), CleanLine(IP_C)>>
    /\ Reverse(file) \in Rearrangements(file)
    /\ Reverse(file) # file
    /\ RunBothPasses(Reverse(file)) = FinalCounts
    /\ problem_lines = 1
    /\ SumCounts(suspicious_paths) = 1

\* 1 when the line the step has processed produced a record, else 0
RecordProduced == IF data_point' # <<>> THEN 1 ELSE 0

\* What one step of the second pass adds: one to the line count, and one to
\* the status-code histogram, the response-time list and the method counts
\* exactly when the line produced a record, which it does exactly when it
\* matches the grammar and its numbers convert
C11_StepCounts ==
    Pass2Step
        => /\ total_lines' = total_lines + 1
           /\ (data_point' # <<>>) <=> Parsed(file[line_number + 1])
           /\ SumCounts(status_codes') = SumCounts(status_codes) + RecordProduced
           /\ Len(response_times') = Len(response_times) + RecordProduced
           /\ SumCounts(http_methods') = SumCounts(http_methods) + RecordProduced

\* The three histograms hold one value for every record so far, and the
\* detail list, the problem lines and the lines are ordered by size
C11_CountsAgree ==
    /\ total_lines = line_number
    /\ SumCounts(status_codes) = Len(response_times)
    /\ SumCounts(http_methods) = Len(response_times)
    /\ Len(response_times) <= total_lines
    /\ Len(problematic_entries) <= problem_lines
    /\ problem_lines <= total_lines

\* At the end of the second pass the three histograms hold one value for
\* every line of the file that produced a record
C11_CountsAtEnd ==
    (pc = "summary")
        => Len(response_times) =
               Cardinality({i \in DOMAIN file : Parsed(file[i])})

\* C11: after every processed line the sum of the status-code histogram, the
\* length of the response-time list and the sum of the method counts all
\* equal the number of lines so far that produced a record; this number is
\* at most total_lines, and the length of the detail list is at most
\* problem_lines, which is at most total_lines.
C11_HistogramsCountRecords ==
    /\ [](C11_CountsAgree /\ C11_CountsAtEnd)
    /\ [][C11_StepCounts]_vars

\* The last of 31 lines has been processed: 30 produced a record, one is
\* a problem line, and none has a detail record
C11_Witness ==
    /\ Evaluated
    /\ line_number = Len(file)
    /\ total_lines = 31
    /\ Len(response_times) = 30
    /\ SumCounts(status_codes) = 30
    /\ SumCounts(http_methods) = 30
    /\ problem_lines = 1
    /\ problematic_entries = <<>>

\* The bot total and the high-request-but-not-bot count together
BucketTotal(stats) == stats.total_bots + stats.high_request_bots

\* What one step of the second pass adds to the two buckets: at most one in
\* all, to the bot total only for a line reported as a bot, to the
\* high-request-but-not-bot count only for a high-request line not reported
\* as a bot
C12_StepBuckets ==
    Pass2Step
        => /\ BucketTotal(bot_stats') - BucketTotal(bot_stats) \in {0, 1}
           /\ bot_stats'.total_bots - bot_stats.total_bots =
                  (IF data_point' # <<>> /\ is_bot_flag' THEN 1 ELSE 0)
           /\ bot_stats'.high_request_bots - bot_stats.high_request_bots =
                  (IF data_point' # <<>> /\ is_high_request' /\ ~is_bot_flag'
                   THEN 1 ELSE 0)

\* C12: each line is counted in at most one of the buckets "known bot" and
\* "high-request but not bot", so after every processed line
\* total_bots + high_request_bots <= total_lines, and the human-traffic
\* figure total_lines - total_bots - high_request_bots is never negative.
C12_BucketsDisjoint ==
    /\ [](/\ BucketTotal(bot_stats) <= total_lines
          /\ total_lines - bot_stats.total_bots - bot_stats.high_request_bots >= 0
          /\ human_traffic # <<>>
                 => /\ human_traffic[1] = total_lines - BucketTotal(bot_stats)
                    /\ human_traffic[1] >= 0)
    /\ [][C12_StepBuckets]_vars

\* The run has ended on a file of 31 lines of a high-volume client, two of
\* them from a bot: every line is in exactly one bucket and no human
\* traffic remains
C12_Witness ==
    /\ pc = "done"
    /\ total_lines = 31
    /\ bot_stats.total_bots = 2
    /\ bot_stats.high_request_bots = 29
    /\ human_traffic = <<0>>

====
